---- MODULE Spec2Model ----
(***************************************************************************)
(* ServerManager (src/unnamed/part_000) and the parts of                   *)
(* LanguageClientConnection (src/lib/languageclient.ts) it relies on.      *)
(*                                                                         *)
(* One action is one synchronous run of code: a call of the host or an     *)
(* event of the workspace up to the awaits it reaches, the settling of a   *)
(* promise of the host (the start function, the shutdown request), or the  *)
(* continuation of one await up to the next.  Every suspended call is kept *)
(* until its continuation has run, so that what the host does in between   *)
(* is seen by it.  The busy reporter (_reportBusyWhile) is injected; it is *)
(* taken to invoke its callback synchronously, as the comment in           *)
(* stopServer ("Immediately remove the server") requires.                  *)
(***************************************************************************)
EXTENDS Integers, Sequences, FiniteSets, TLC

\* ------------------------------------------------------------------ bounds
NumEditors == 2     \* text editors that can ever exist
MaxInst == 2        \* invocations of the start function over a run
MaxStops == 2       \* stopServer calls awaiting the shutdown reply at once
MaxOps == 1         \* stopAll/restartAll/projectPathsChanged awaiting at once
MaxOpLater == 2     \* such callers with a resolved await that have not resumed
MaxStopping == 2    \* length of _stoppingServers followed
MaxSubs == 2        \* live subscription sets (startListening calls)
MaxCalls == 2       \* suspended _handleTextEditor calls of one editor at once
MaxHooks == 2       \* onDidDestroy callbacks of _handleTextEditor held per editor
MaxKills == 2       \* process.kill() calls counted per instance
MaxRestarts == 7    \* restart counter values followed
MaxBatch == 2       \* file-change events in one batch
MaxReqs == 2        \* requests sent over the connection over a run
MaxReturned == 3    \* length of an array getActiveServers returned, as the host grows it

\* the restart ceiling of hasServerReachedRestartLimit
RestartLimit == 5

\* ------------------------------------------------------------------ strings
\* A string is a sequence of one-character strings.
Sep == "/"
DirA == <<"/", "a">>
DirAB == <<"/", "a", "/", "b">>
DirADotB == <<"/", "a", "/", ".", "/", "b">>
FileA == <<"/", "a", "/", "f">>
FileAB == <<"/", "a", "/", "b", "/", "f">>
FileABG == <<"/", "a", "/", "b", "/", "g">>
FileOut == <<"/", "a", "b", "/", "f">>
NullPath == <<"null">>

ProjectDirs == {DirA, DirAB, DirADotB}
FilePaths == {NullPath, FileA, FileAB, FileOut}
\* the paths of the editors that are opened: none, under one root, under both
EditorPaths == {NullPath, FileA, FileAB}
\* atom.project.getDirectories(): the directories of the project, in order
DirLists == {<<>>, <<DirA>>, <<DirAB>>, <<DirA, DirAB>>, <<DirAB, DirA>>, <<DirADotB>>}
\* the paths a host passes when it calls projectPathsChanged itself
CallPaths == {<<>>, <<DirA>>, <<DirADotB>>}

\* file-system change events: path, action and, for a rename, the old path
WatchedFiles == {FileA, FileAB, FileABG}
FileEvents ==
  {[path |-> f, action |-> a, oldPath |-> NullPath] :
     f \in WatchedFiles, a \in {"created", "modified", "deleted"}}
  \cup {[path |-> fg[1], action |-> "renamed", oldPath |-> fg[2]] :
          fg \in {x \in WatchedFiles \X WatchedFiles : x[1] # x[2]}}
Batches == UNION {[1..n -> FileEvents] : n \in 0..MaxBatch}
\* _changeWatchedFileFilter, as the set of paths it accepts: a filter that
\* rejects one of the paths and accepts two, both under the outer directory
WatchFilters == {WatchedFiles \ {FileABG}}

Editors == 1..NumEditors
InstIds == 1..MaxInst
StopSlots == 1..MaxStops
OpSlots == 1..MaxOps

Min(a, b) == IF a < b THEN a ELSE b
Max(a, b) == IF a > b THEN a ELSE b
Range(s) == {s[k] : k \in 1..Len(s)}

\* String.prototype.startsWith
StartsWith(s, d) == Len(d) <= Len(s) /\ SubSeq(s, 1, Len(d)) = d

\* Array.prototype.indexOf, 0-based, -1 when absent
IndexOf(s, x) ==
  IF \E k \in 1..Len(s) : s[k] = x
  THEN (CHOOSE k \in 1..Len(s) : s[k] = x /\ \A j \in 1..(k - 1) : s[j] # x) - 1
  ELSE -1

\* Array.prototype.splice(start, 1): a negative start counts from the end
Splice1(s, start) ==
  LET at == IF start < 0 THEN Max(Len(s) + start, 0) ELSE Min(start, Len(s))
  IN IF at >= Len(s) THEN s
     ELSE [k \in 1..(Len(s) - 1) |-> IF k <= at THEN s[k] ELSE s[k + 1]]

\* String.prototype.split(path.sep): the segments between the separators
RECURSIVE SplitSep(_, _)
SplitSep(s, segment) ==
  IF s = <<>> THEN <<segment>>
  ELSE IF Head(s) = Sep THEN <<segment>> \o SplitSep(Tail(s), <<>>)
  ELSE SplitSep(Tail(s), Append(segment, Head(s)))

\* the segments joined by the separator
RECURSIVE JoinSep(_)
JoinSep(segments) ==
  IF segments = <<>> THEN <<>>
  ELSE IF Len(segments) = 1 THEN Head(segments)
  ELSE Head(segments) \o <<Sep>> \o JoinSep(Tail(segments))

Dot == <<".">>
DotDot == <<".", ".">>

\* path.normalize's pass over the segments: empty and "." segments are dropped,
\* ".." removes the segment before it, and is kept only where the path may climb
RECURSIVE normalizeString(_, _, _)
normalizeString(segments, res, allowAboveRoot) ==
  IF segments = <<>> THEN res
  ELSE LET g == Head(segments)
           r == IF g = <<>> \/ g = Dot THEN res
                ELSE IF g = DotDot
                THEN IF res # <<>> /\ res[Len(res)] # DotDot
                     THEN SubSeq(res, 1, Len(res) - 1)
                     ELSE IF allowAboveRoot THEN Append(res, g) ELSE res
                ELSE Append(res, g)
       IN normalizeString(Tail(segments), r, allowAboveRoot)

\* path.normalize (posix)
pathNormalize(p) ==
  IF p = <<>> THEN Dot
  ELSE LET isAbsolute == p[1] = Sep
           trailingSeparator == p[Len(p)] = Sep
           n == JoinSep(normalizeString(SplitSep(p, <<>>), <<>>, ~isAbsolute))
       IN IF n = <<>>
          THEN IF isAbsolute THEN <<Sep>>
               ELSE IF trailingSeparator THEN Dot \o <<Sep>> ELSE Dot
          ELSE (IF isAbsolute THEN <<Sep>> ELSE <<>>) \o n
                 \o (IF trailingSeparator THEN <<Sep>> ELSE <<>>)

\* path.join(a, b): the non-empty arguments joined by the separator, normalized
pathJoin(a, b) ==
  pathNormalize(IF a = <<>> THEN b ELSE IF b = <<>> THEN a ELSE a \o <<Sep>> \o b)

normalizePath(projectPath) ==
  IF projectPath = <<>> \/ projectPath[Len(projectPath)] # Sep
  THEN pathJoin(projectPath, <<Sep>>)
  ELSE projectPath

RECURSIVE MapNormalize(_)
MapNormalize(dirs) ==
  IF dirs = <<>> THEN <<>>
  ELSE <<normalizePath(Head(dirs))>> \o MapNormalize(Tail(dirs))

Paths == {normalizePath(d) : d \in ProjectDirs}

\* ------------------------------------------------------------------ state
VARIABLES
  activeServers,            \* _activeServers: sequence of instance ids
  startingServerPromises,   \* _startingServerPromises: path -> invocation id, 0 = no entry
  restartCounterPerProject, \* _restartCounterPerProject: path -> restarts, 0 = no record
  timers,                   \* paths whose decay timer is pending
  stoppingServers,          \* _stoppingServers: sequence of instance ids
  editorToServer,           \* _editorToServer: editor -> instance id, 0 = no entry
  normalizedProjectPaths,   \* _normalizedProjectPaths
  isStarted,                \* _isStarted
  liveSubs,                 \* subscription sets created by startListening and not disposed
  destroyHooks,             \* editor -> how many onDidDestroy callbacks of
                            \* _handleTextEditor the current _disposable holds
  detachedHooks,            \* editor -> how many such callbacks are held by a _disposable
                            \* that startListening has replaced: nothing disposes them
  observed,                 \* editor -> how many observeGrammar listeners it has (one
                            \* per observeTextEditors call)
  waiting,                  \* editor -> invocation -> how many _handleTextEditor calls of
                            \* the editor await that start
  handleLater,              \* editor -> instance -> how many _handleTextEditor calls of
                            \* the editor have a getServer resolved to that instance and
                            \* have not resumed
  inst,                     \* instance id -> [st, path, conn, kills, start]; start is the
                            \* state of the start function's promise while startServer
                            \* awaits it ("pending", "fulfilled", "rejected"), else "none"
  stops,                    \* stopServer calls that have not settled: slot ->
                            \* [inst, op, res]; res is the state of the shutdown promise
                            \* while the call awaits it ("pending", "fulfilled",
                            \* "rejected"), and how the function handed to
                            \* _reportBusyWhile ended once it has ("returned", "threw")
  ops,                      \* callers awaiting Promise.all of stops: slot ->
                            \* [kind, atCall, inFlight]; atCall are the instances the
                            \* caller is to stop, inFlight the starts pending when
                            \* stopAllServers is called (kept for the claims)
  opLater,                  \* callers whose Promise.all has resolved and that have not
                            \* resumed: pairs <<[kind, atCall, inFlight], how many>>
  editors,                  \* editor -> [st, path, elig]   (the Atom workspace)
  projectDirs,              \* atom.project.getDirectories()
  callsSinceAbsent,         \* path -> calls of hasServerReachedRestartLimit since the
                            \* path last had no counter record (kept for the claims)
  last,                     \* the promises the last turn settled; ev is "call" for
                            \* a turn that is a call of the host or a workspace event
  connection,               \* one LanguageClientConnection and the requests sent over
                            \* it: [isConnected, closeEvents, rpcOpen, reqs]
  returned                  \* the array the last getActiveServers call returned, in the
                            \* host's hands: [live, items, op]; live tells that it is
                            \* the registry's own array, op is the last operation on it

managerVars ==
  <<activeServers, startingServerPromises, restartCounterPerProject, timers,
    stoppingServers, editorToServer, normalizedProjectPaths, isStarted, liveSubs,
    destroyHooks, detachedHooks, observed, waiting, handleLater, inst, stops, ops,
    opLater, editors, projectDirs, callsSinceAbsent, last>>

vars == <<managerVars, connection, returned>>

HostCalls == {"stopUnusedServers", "stopAllServers", "restartAllServers", "stopServer",
              "projectPathsChanged"}

NoInst == [st |-> "none", path |-> NullPath, conn |-> FALSE, kills |-> 0, start |-> "none"]
NoStop == [inst |-> 0, op |-> 0, res |-> "none"]
NoOp == [kind |-> "none", atCall |-> {}, inFlight |-> {}]
NoEditor == [st |-> "new", path |-> NullPath, elig |-> FALSE]
\* no suspended _handleTextEditor call, and no callback or listener
NoCalls == [e \in Editors |-> [i \in InstIds |-> 0]]
NoHooks == [e \in Editors |-> 0]

\* the manager's state as one record, threaded through the code of a turn;
\* called/resolved/rejected/done/failed/atCall/to collect what the turn did
Cur ==
  [act |-> activeServers, pend |-> startingServerPromises,
   rc |-> restartCounterPerProject, tm |-> timers, stp |-> stoppingServers,
   e2s |-> editorToServer, npp |-> normalizedProjectPaths, started |-> isStarted,
   subs |-> liveSubs, hooks |-> destroyHooks, oldHooks |-> detachedHooks,
   obs |-> observed, wait |-> waiting, later |-> handleLater,
   inst |-> inst, stops |-> stops, ops |-> ops, opl |-> opLater, eds |-> editors,
   dirs |-> projectDirs,
   calls |-> callsSinceAbsent,
   called |-> {}, resolved |-> {}, rejected |-> {}, done |-> "none", failed |-> "none",
   atCall |-> {}, inFlight |-> {}, to |-> NoHooks, cleared |-> {}, ovf |-> FALSE]

\* the record kept in last: ev names a resumed await, a restart-limit call, or
\* the host call whose turn invoked stopServer; any other turn is a "call"
Event(ev, arg, res, m) ==
  [ev |-> IF ev \in HostCalls /\ m.called = {} THEN "call" ELSE ev,
   arg |-> arg, res |-> res, called |-> m.called, resolved |-> m.resolved,
   rejected |-> m.rejected, done |-> m.done, failed |-> m.failed, atCall |-> m.atCall,
   inFlight |-> m.inFlight, to |-> m.to, cleared |-> m.cleared]

\* _handleTextEditor after the await of getServer, for a server: a turn of its
\* own; it does not look at the mapping again, and registers one more callback
mapEditor(m, e, id) ==
  IF m.eds[e].st = "open" /\ m.hooks[e] >= MaxHooks THEN [m EXCEPT !.ovf = TRUE]
  ELSE [m EXCEPT !.e2s[e] = id,
                 !.hooks[e] = IF m.eds[e].st = "open" THEN @ + 1 ELSE @]

\* a turn ends: the synchronous code has run to its end or to its awaits
Commit(m, ev, arg, res) ==
  /\ ~m.ovf
  /\ activeServers' = m.act
  /\ startingServerPromises' = m.pend
  /\ restartCounterPerProject' = m.rc
  /\ timers' = m.tm
  /\ stoppingServers' = m.stp
  /\ editorToServer' = m.e2s
  /\ normalizedProjectPaths' = m.npp
  /\ isStarted' = m.started
  /\ liveSubs' = m.subs
  /\ destroyHooks' = m.hooks
  /\ detachedHooks' = m.oldHooks
  /\ observed' = m.obs
  /\ waiting' = m.wait
  /\ handleLater' = m.later
  /\ inst' = m.inst
  /\ stops' = m.stops
  /\ ops' = m.ops
  /\ opLater' = m.opl
  /\ editors' = m.eds
  /\ projectDirs' = m.dirs
  /\ callsSinceAbsent' = m.calls
  /\ last' = Event(ev, arg, res, m)
  /\ UNCHANGED connection
  /\ returned' = [returned EXCEPT !.items = IF returned.live THEN m.act ELSE @]

\* ------------------------------------------------------------------ the code
FreeInst(m) == {i \in InstIds : m.inst[i].st = "none"}
FreeStop(m) == {k \in StopSlots : m.stops[k] = NoStop}
FreeOp(m) == {k \in OpSlots : m.ops[k] = NoOp}
Least(S) == CHOOSE x \in S : \A y \in S : x <= y
Overflow(m) == [m EXCEPT !.ovf = TRUE]

\* Array.prototype.find over _normalizedProjectPaths: the first match, else null
RECURSIVE FindPrefix(_, _)
FindPrefix(dirs, filePath) ==
  IF dirs = <<>> THEN NullPath
  ELSE IF StartsWith(filePath, Head(dirs)) THEN Head(dirs)
  ELSE FindPrefix(Tail(dirs), filePath)

determineProjectPath(npp, filePath) ==
  IF filePath = NullPath THEN NullPath ELSE FindPrefix(npp, filePath)

updateNormalizedProjectPaths(m, dirs) == [m EXCEPT !.npp = MapNormalize(dirs)]

\* what exitServer calls on the connection inside its try block
politePath(m, i, thrown) ==
  IF ~m.inst[i].conn THEN <<>>
  ELSE IF thrown = "exit" THEN <<"exit">>
  ELSE <<"exit", "dispose">>

\* exitServer without the finally: an exception skips process.kill()
exitServer_noFinally(m, i, thrown) ==
  LET threw == m.inst[i].conn /\ thrown # "none"
  IN IF threw
     THEN [m |-> m, threw |-> threw, calls |-> politePath(m, i, thrown)]
     ELSE [m |-> [m EXCEPT !.inst[i].kills = Min(@ + 1, MaxKills)], threw |-> threw,
           calls |-> politePath(m, i, thrown) \o <<"kill">>]

\* exitServer: thrown is where the polite path throws ("none", "exit", "dispose");
\* server.process.kill() sits in the finally clause; calls is what it invoked on
\* the connection and the process, in order
exitServer(m, i, thrown) ==
  LET threw == m.inst[i].conn /\ thrown # "none"
  IN [m |-> [m EXCEPT !.inst[i].kills = Min(@ + 1, MaxKills)], threw |-> threw,
      calls |-> politePath(m, i, thrown) \o <<"kill">>]

\* the function stopServer hands to _reportBusyWhile, from the loop over
\* _editorToServer to its end, for the call in slot k: it returns or it throws
stopServerTail(m, k, thrown) ==
  LET i == m.stops[k].inst
      m1 == [m EXCEPT !.e2s = [e \in Editors |-> IF @[e] = i THEN 0 ELSE @[e]]]
      ex == exitServer(m1, i, thrown)
  IN IF ex.threw
     THEN [ex.m EXCEPT !.stops[k].res = "threw"]
     ELSE [ex.m EXCEPT !.stp = Splice1(@, IndexOf(@, i)), !.stops[k].res = "returned"]

\* stopServer without the removal from _activeServers
stopServer_noSplice(m, i, op) ==
  LET m1 == [m EXCEPT !.stp = Append(@, i),
                      !.called = @ \cup {i}]
  IN IF Len(m1.stp) > MaxStopping \/ FreeStop(m1) = {} THEN Overflow(m1)
     ELSE LET k == Least(FreeStop(m1))
              m2 == [m1 EXCEPT !.stops[k] = [inst |-> i, op |-> op, res |-> "pending"]]
          IN IF m1.inst[i].conn THEN m2 ELSE stopServerTail(m2, k, "none")

\* stopServer up to its first await: of connection.shutdown() with the connection
\* open, and else of the promise of _reportBusyWhile, when the function it was
\* handed has run to its end; op is the caller awaiting the call
stopServer(m, i, op) ==
  LET m1 == [m EXCEPT !.act = Splice1(@, IndexOf(@, i)),
                      !.stp = Append(@, i),
                      !.called = @ \cup {i}]
  IN IF Len(m1.stp) > MaxStopping \/ FreeStop(m1) = {} THEN Overflow(m1)
     ELSE LET k == Least(FreeStop(m1))
              m2 == [m1 EXCEPT !.stops[k] = [inst |-> i, op |-> op, res |-> "pending"]]
          IN IF m1.inst[i].conn THEN m2 ELSE stopServerTail(m2, k, "none")

RECURSIVE StopEach(_, _, _)
StopEach(m, servers, op) ==
  IF servers = <<>> THEN m
  ELSE StopEach(stopServer(m, Head(servers), op), Tail(servers), op)

Used(m) == {m.e2s[e] : e \in Editors} \ {0}

\* stopUnusedServers without the filter on the used servers
stopUnusedServers_all(m) == StopEach(m, m.act, 0)

stopUnusedServers(m) ==
  LET unusedServers == SelectSeq(m.act, LAMBDA s : s \notin Used(m))
  IN StopEach(m, unusedServers, 0)

\* this._activeServers.map((s) => this.stopServer(s)): map visits the indices
\* 0..length-1 of the array as it is when each index is reached, and stopServer
\* splices that array during the visit
RECURSIVE MapStopActive(_, _, _, _)
MapStopActive(m, k, len, op) ==
  IF k >= len THEN m
  ELSE IF k < Len(m.act)
       THEN MapStopActive(stopServer(m, m.act[k + 1], op), k + 1, len, op)
       ELSE MapStopActive(m, k + 1, len, op)

\* stopAllServers without the clearTimeout of the records it deletes
stopAllServers_keepTimers(m, op) ==
  LET m1 == [m EXCEPT !.rc = [p \in Paths |-> 0]]
  IN MapStopActive(m1, 0, Len(m1.act), op)

\* stopAllServers: the loop over _restartCounterPerProject clears the timer of
\* every record and deletes the record; then the stops
stopAllServers(m, op) ==
  LET records == {p \in Paths : m.rc[p] # 0}
      m1 == [m EXCEPT !.rc = [p \in Paths |-> 0],
                      !.tm = @ \ records,
                      !.cleared = m.tm \cap records]
  IN MapStopActive(m1, 0, Len(m1.act), op)

\* startServer up to the await of the start function's promise
startServer(m, projectPath) ==
  IF FreeInst(m) = {} THEN Overflow(m)
  ELSE LET id == Least(FreeInst(m))
       IN [m EXCEPT !.inst[id] = [st |-> "starting", path |-> projectPath,
                                  conn |-> FALSE, kills |-> 0, start |-> "pending"],
                    !.pend[projectPath] = id]

\* startServer after the await: the try branch and the catch branch
startServerTry(m, id) ==
  [m EXCEPT !.act = Append(@, id),
            !.pend[m.inst[id].path] = 0,
            !.inst[id].st = "live",
            !.inst[id].conn = TRUE,
            !.inst[id].start = "none"]

\* the catch branch without the delete of the pending entry
startServerCatch_keep(m, id) ==
  [m EXCEPT !.inst[id].st = "failed", !.inst[id].start = "none"]

startServerCatch(m, id) ==
  [m EXCEPT !.pend[m.inst[id].path] = 0, !.inst[id].st = "failed",
            !.inst[id].start = "none"]

ActiveFor(m, p) == SelectSeq(m.act, LAMBDA s : m.inst[s].path = p)

\* getServer without the question to _startForEditor
getServer_anyEditor(m, e, shouldStart) ==
  LET finalProjectPath == determineProjectPath(m.npp, m.eds[e].path)
  IN IF finalProjectPath = NullPath THEN [m |-> m, kind |-> "null", id |-> 0]
     ELSE IF ActiveFor(m, finalProjectPath) # <<>>
       THEN [m |-> m, kind |-> "server", id |-> Head(ActiveFor(m, finalProjectPath))]
     ELSE IF m.pend[finalProjectPath] # 0
       THEN [m |-> m, kind |-> "await", id |-> m.pend[finalProjectPath]]
     ELSE IF shouldStart
       THEN LET m1 == startServer(m, finalProjectPath)
            IN [m |-> m1, kind |-> "await", id |-> m1.pend[finalProjectPath]]
     ELSE [m |-> m, kind |-> "null", id |-> 0]

\* getServer without the lookup in _startingServerPromises
getServer_noPending(m, e, shouldStart) ==
  LET finalProjectPath == determineProjectPath(m.npp, m.eds[e].path)
  IN IF finalProjectPath = NullPath THEN [m |-> m, kind |-> "null", id |-> 0]
     ELSE IF ActiveFor(m, finalProjectPath) # <<>>
       THEN [m |-> m, kind |-> "server", id |-> Head(ActiveFor(m, finalProjectPath))]
     ELSE IF shouldStart /\ m.eds[e].elig
       THEN LET m1 == startServer(m, finalProjectPath)
            IN [m |-> m1, kind |-> "await", id |-> m1.pend[finalProjectPath]]
     ELSE [m |-> m, kind |-> "null", id |-> 0]

\* getServer: kind "null" (resolves to null), "server" (resolves to id) or
\* "await" (settles as the start invocation id settles)
getServer(m, e, shouldStart) ==
  LET finalProjectPath == determineProjectPath(m.npp, m.eds[e].path)
  IN IF finalProjectPath = NullPath THEN [m |-> m, kind |-> "null", id |-> 0]
     ELSE IF ActiveFor(m, finalProjectPath) # <<>>
       THEN [m |-> m, kind |-> "server", id |-> Head(ActiveFor(m, finalProjectPath))]
     ELSE IF m.pend[finalProjectPath] # 0
       THEN [m |-> m, kind |-> "await", id |-> m.pend[finalProjectPath]]
     ELSE IF shouldStart /\ m.eds[e].elig
       THEN LET m1 == startServer(m, finalProjectPath)
            IN [m |-> m1, kind |-> "await", id |-> m1.pend[finalProjectPath]]
     ELSE [m |-> m, kind |-> "null", id |-> 0]

\* the _handleTextEditor calls of editor e that are suspended
RECURSIVE SumCalls(_, _)
SumCalls(f, n) == IF n = 0 THEN 0 ELSE f[n] + SumCalls(f, n - 1)
Suspended(m, e) == SumCalls(m.wait[e], MaxInst) + SumCalls(m.later[e], MaxInst)

\* _handleTextEditor up to the await of getServer: it suspends there also when
\* getServer resolves at once, and every call suspends on its own
_handleTextEditor(m, e) ==
  IF m.ovf \/ m.e2s[e] # 0 THEN m
  ELSE LET r == getServer(m, e, TRUE)
       IN IF r.kind = "null" \/ r.m.ovf THEN r.m
          ELSE IF Suspended(m, e) >= MaxCalls THEN Overflow(r.m)
          ELSE IF r.kind = "server" THEN [r.m EXCEPT !.later[e][r.id] = @ + 1]
          ELSE [r.m EXCEPT !.wait[e][r.id] = @ + 1]

_handleGrammarChange(m, e) ==
  IF m.ovf THEN m
  ELSE IF m.eds[e].elig THEN _handleTextEditor(m, e)
  ELSE IF m.e2s[e] # 0 THEN stopUnusedServers([m EXCEPT !.e2s[e] = 0])
  ELSE m

\* observeGrammar adds a listener and calls it at once with the current
\* grammar; then the direct call of _handleTextEditor
observeTextEditors(m, e) ==
  _handleTextEditor(_handleGrammarChange([m EXCEPT !.obs[e] = @ + 1], e), e)

\* atom.textEditors.observe of every live subscription calls back for a new editor
RECURSIVE ObserveEach(_, _, _)
ObserveEach(m, n, e) ==
  IF n = 0 THEN m ELSE ObserveEach(observeTextEditors(m, e), n - 1, e)

\* a grammar change calls every observeGrammar listener of the editor
RECURSIVE GrammarEach(_, _, _)
GrammarEach(m, n, e) ==
  IF n = 0 THEN m ELSE GrammarEach(_handleGrammarChange(m, e), n - 1, e)

\* the onDidDestroy callbacks of _handleTextEditor, each in its turn
RECURSIVE DestroyEach(_, _, _)
DestroyEach(m, n, e) ==
  IF n = 0 THEN m
  ELSE DestroyEach(stopUnusedServers([m EXCEPT !.e2s[e] = 0]), n - 1, e)

RECURSIVE ObserveAll(_, _)
ObserveAll(m, e) ==
  IF e > NumEditors THEN m
  ELSE ObserveAll(IF m.eds[e].st = "open" THEN observeTextEditors(m, e) ELSE m, e + 1)

\* startListening: a new _disposable takes the place of the old one, which is
\* not disposed; atom.textEditors.observe calls back for every open editor;
\* _isStarted is not assigned here
startListening(m) ==
  IF ~m.started
  THEN IF m.subs >= MaxSubs \/ \E e \in Editors : m.oldHooks[e] + m.hooks[e] > MaxHooks
       THEN Overflow(m)
       ELSE ObserveAll([m EXCEPT !.subs = @ + 1,
                                 !.oldHooks = [e \in Editors |-> @[e] + m.hooks[e]],
                                 !.hooks = NoHooks], 1)
  ELSE m

\* stopListening: dispose() ends the subscriptions and the destroy callbacks the
\* current _disposable holds
stopListening(m) ==
  IF m.started
  THEN [m EXCEPT !.subs = Max(@ - 1, 0), !.hooks = NoHooks, !.started = FALSE]
  ELSE m

\* the code after the await of Promise.all in the caller of kind
opContinue(m, kind) ==
  IF kind = "restartAllServers"
  THEN startListening([m EXCEPT !.e2s = [e \in Editors |-> 0]])
  ELSE IF kind = "projectPathsChanged"
  THEN updateNormalizedProjectPaths(m, m.dirs)
  ELSE m

\* the records of the callers: what is kept of a call in ops and opLater
OpRecords ==
  [kind : {"stopAllServers", "restartAllServers", "projectPathsChanged"},
   atCall : SUBSET InstIds, inFlight : SUBSET InstIds]

\* opLater with one more, and with one less, caller of record op
Copies(later, op) ==
  IF \E c \in later : c[1] = op THEN (CHOOSE c \in later : c[1] = op)[2] ELSE 0
RECURSIVE Resumable(_)
Resumable(later) ==
  IF later = {} THEN 0
  ELSE LET c == CHOOSE x \in later : TRUE IN c[2] + Resumable(later \ {c})
PutOp(later, op) ==
  (later \ {<<op, Copies(later, op)>>}) \cup {<<op, Copies(later, op) + 1>>}
TakeOp(later, op) ==
  (later \ {<<op, Copies(later, op)>>})
    \cup (IF Copies(later, op) > 1 THEN {<<op, Copies(later, op) - 1>>} ELSE {})

\* the Promise.all of the caller op has resolved: its continuation is queued
opResolved(m, op) ==
  IF Resumable(m.opl) >= MaxOpLater THEN Overflow(m)
  ELSE [m EXCEPT !.opl = PutOp(@, op)]

\* a caller that has issued its stops suspends at its await: with a stop awaiting
\* shutdown it waits in slot o, and otherwise its Promise.all is resolved
opAwait(m, o, kind, atCall) ==
  LET inFlight == IF kind = "projectPathsChanged" THEN {}
                  ELSE {i \in InstIds : m.inst[i].st = "starting"}
      op == [kind |-> kind, atCall |-> atCall, inFlight |-> inFlight]
  IN IF m.ovf THEN m
     ELSE IF o # 0 /\ \E k \in StopSlots : m.stops[k].op = o
     THEN [m EXCEPT !.ops[o] = op]
     ELSE opResolved(m, op)

\* the caller op resumes after its await
opResumed(m, op) ==
  opContinue([m EXCEPT !.opl = TakeOp(@, op), !.done = op.kind, !.atCall = op.atCall,
                       !.inFlight = op.inFlight],
             op.kind)

restartAllServers(m, o) ==
  LET atCall == Range(m.act)
  IN opAwait(stopAllServers(stopListening(m), o), o, "restartAllServers", atCall)

\* projectPathsChanged comparing with the paths as given, not normalized
projectPathsChanged_raw(m, o, projectPaths) ==
  LET pathsSet == Range(projectPaths)
      serversToStop == SelectSeq(m.act, LAMBDA s : m.inst[s].path \notin pathsSet)
  IN IF m.ovf THEN m
     ELSE IF serversToStop # <<>> /\ o = 0 THEN Overflow(m)
     ELSE opAwait(StopEach(m, serversToStop, o), o, "projectPathsChanged",
                  Range(serversToStop))

\* projectPathsChanged up to its await: o is a free slot for the await, 0 when
\* there is none (it needs none when it has nothing to stop); atCall keeps
\* serversToStop
projectPathsChanged(m, o, projectPaths) ==
  LET pathsSet == {normalizePath(projectPaths[k]) : k \in 1..Len(projectPaths)}
      serversToStop == SelectSeq(m.act, LAMBDA s : m.inst[s].path \notin pathsSet)
  IN IF m.ovf THEN m
     ELSE IF serversToStop # <<>> /\ o = 0 THEN Overflow(m)
     ELSE opAwait(StopEach(m, serversToStop, o), o, "projectPathsChanged",
                  Range(serversToStop))

\* atom.project.onDidChangePaths calls the handler of every live subscription
RECURSIVE onDidChangePaths(_, _, _)
onDidChangePaths(m, n, projectPaths) ==
  IF n = 0 THEN m
  ELSE onDidChangePaths(
         projectPathsChanged(m, IF FreeOp(m) = {} THEN 0 ELSE Least(FreeOp(m)),
                             projectPaths),
         n - 1, projectPaths)

\* Convert.atomFileEventToLSFileEvents: the watched-file-change records of an event
atomFileEventToLSFileEvents(fileEvent) ==
  IF fileEvent.action = "created" THEN <<[uri |-> fileEvent.path, type |-> "Created"]>>
  ELSE IF fileEvent.action = "modified" THEN <<[uri |-> fileEvent.path, type |-> "Changed"]>>
  ELSE IF fileEvent.action = "deleted" THEN <<[uri |-> fileEvent.path, type |-> "Deleted"]>>
  ELSE <<[uri |-> fileEvent.oldPath, type |-> "Deleted"],
         [uri |-> fileEvent.path, type |-> "Created"]>>

\* the condition without the question to _changeWatchedFileFilter
underRootAndWatched_noFilter(filePath, projectPath, accepts) ==
  StartsWith(filePath, projectPath)

\* filePath.startsWith(activeServer.projectPath) && _changeWatchedFileFilter(filePath)
underRootAndWatched(filePath, projectPath, accepts) ==
  StartsWith(filePath, projectPath) /\ filePath \in accepts

\* the inner loop of projectFilesChanged: the changes for one active server
RECURSIVE changesFor(_, _, _)
changesFor(projectPath, fileEvents, accepts) ==
  IF fileEvents = <<>> THEN <<>>
  ELSE LET fileEvent == Head(fileEvents)
           first == IF underRootAndWatched(fileEvent.path, projectPath, accepts)
                    THEN <<atomFileEventToLSFileEvents(fileEvent)[1]>> ELSE <<>>
           second == IF /\ fileEvent.action = "renamed"
                        /\ underRootAndWatched(fileEvent.oldPath, projectPath, accepts)
                     THEN <<atomFileEventToLSFileEvents(fileEvent)[2]>> ELSE <<>>
       IN first \o second \o changesFor(projectPath, Tail(fileEvents), accepts)

\* the outer loop: the didChangeWatchedFiles notifications sent, in order
RECURSIVE NotifyEach(_, _, _, _)
NotifyEach(m, servers, fileEvents, accepts) ==
  IF servers = <<>> THEN <<>>
  ELSE LET changes == changesFor(m.inst[Head(servers)].path, fileEvents, accepts)
       IN (IF Len(changes) > 0 THEN <<[to |-> Head(servers), changes |-> changes]>>
           ELSE <<>>)
          \o NotifyEach(m, Tail(servers), fileEvents, accepts)

projectFilesChanged(m, fileEvents, accepts) ==
  IF Len(m.act) = 0 THEN <<>>
  ELSE NotifyEach(m, m.act, fileEvents, accepts)

\* terminate: forEach stops at the first exitServer that throws
RECURSIVE TerminateEach(_, _, _)
TerminateEach(m, servers, thrown) ==
  IF servers = <<>> THEN m
  ELSE LET ex == exitServer(m, Head(servers), thrown)
       IN IF ex.threw THEN ex.m ELSE TerminateEach(ex.m, Tail(servers), thrown)

terminate(m, thrown) == TerminateEach(m, m.stp, thrown)

\* hasServerReachedRestartLimit with >= for >
hasServerReachedRestartLimit_ge(m, i) ==
  LET p == m.inst[i].path
      m1 == IF m.rc[p] = 0 THEN [m EXCEPT !.tm = @ \cup {p}] ELSE m
  IN [m |-> [m1 EXCEPT !.rc[p] = @ + 1,
                       !.calls[p] = IF m.rc[p] = 0 THEN 1 ELSE @ + 1],
      res |-> m.rc[p] + 1 >= RestartLimit]

hasServerReachedRestartLimit(m, i) ==
  LET p == m.inst[i].path
      m1 == IF m.rc[p] = 0 THEN [m EXCEPT !.tm = @ \cup {p}] ELSE m
  IN [m |-> [m1 EXCEPT !.rc[p] = @ + 1,
                       !.calls[p] = IF m.rc[p] = 0 THEN 1 ELSE @ + 1],
      res |-> m.rc[p] + 1 > RestartLimit]

\* how many _handleTextEditor calls of each editor await the start id
Awaiting(m, id) == [e \in Editors |-> m.wait[e][id]]

\* startServer resumes after its await, in the try branch or the catch branch;
\* the getServer calls that await the same promise settle after it: to keeps
\* them, and on success their _handleTextEditor calls are due to resume
startServerResumed(m, id) ==
  LET ok == m.inst[id].start = "fulfilled"
      m1 == IF ok THEN startServerTry(m, id) ELSE startServerCatch(m, id)
  IN [m1 EXCEPT !.wait = [e \in Editors |-> [@[e] EXCEPT ![id] = 0]],
                !.later = IF ok
                          THEN [e \in Editors |-> [@[e] EXCEPT ![id] = @ + m.wait[e][id]]]
                          ELSE @,
                !.to = Awaiting(m, id)]

\* the function of stopServer resumes after the await of shutdown: it rethrows a
\* rejection and else runs to its end
stopServerResumed(m, k, thrown) ==
  IF m.stops[k].res = "fulfilled" THEN stopServerTail(m, k, thrown)
  ELSE [m EXCEPT !.stops[k].res = "threw"]

\* stopServer resumes after the await of _reportBusyWhile and settles as the
\* function did; the Promise.all of its caller follows: it rejects with the
\* first rejection and resolves when its last stop has resolved
stopServerSettled(m, k) ==
  LET s == m.stops[k]
      o == s.op
      m0 == [m EXCEPT !.stops[k] = NoStop]
      m1 == IF s.res = "returned" THEN [m0 EXCEPT !.resolved = @ \cup {s.inst}]
            ELSE [m0 EXCEPT !.rejected = @ \cup {s.inst}]
  IN IF o = 0 THEN m1
     ELSE IF s.inst \in m1.rejected
     THEN [m1 EXCEPT !.ops[o] = NoOp,
                     !.stops = [j \in StopSlots |->
                                  IF @[j].op = o THEN [@[j] EXCEPT !.op = 0] ELSE @[j]],
                     !.failed = m.ops[o].kind]
     ELSE IF \E j \in StopSlots : m1.stops[j].op = o THEN m1
     ELSE opResolved([m1 EXCEPT !.ops[o] = NoOp], m.ops[o])

\* getActiveServers that hands out the registry's own array
getActiveServers_alias(m) == [live |-> TRUE, items |-> m.act, op |-> "get"]

\* getActiveServers: this._activeServers.slice(), a new array of the same elements
getActiveServers(m) == [live |-> FALSE, items |-> m.act, op |-> "get"]

\* what the host does to an array it holds: push(x), pop(), reverse()
ArrayOps == {"push", "pop", "reverse"}
Reverse(s) == [k \in 1..Len(s) |-> s[Len(s) + 1 - k]]
ArrayOp(s, op, x) ==
  IF op = "push" THEN Append(s, x)
  ELSE IF op = "pop" THEN SubSeq(s, 1, Len(s) - 1)
  ELSE Reverse(s)

\* ------------------------------------------------------------------ the connection
\* A request: st is the state of the promise _sendRequest returned ("pending",
\* "resolved", "rejected" with the peer's error, "cancelled" = rejected with the
\* error code RequestCancelled); token is the caller's cancellation token
\* ("none", "armed", "fired"); passed tells whether _sendRequest handed a token
\* to rpc.sendRequest; notice whether the rpc layer has sent the cancel notice;
\* firedPending whether the token fired while the request was pending.
ReqIds == 1..MaxReqs
Methods == {"textDocument/completion", "textDocument/documentSymbol", "shutdown"}
Tokens == {"none", "armed"}
Outcomes == {"result", "error", "RequestCancelled"}
NoReq == [st |-> "none", method |-> "none", token |-> "none", passed |-> FALSE,
          notice |-> FALSE, firedPending |-> FALSE]

\* the rpc.onClose callback of the constructor without the assignment to isConnected
onClose_keepFlag(c) == [c EXCEPT !.closeEvents = @ + 1]

\* the rpc.onClose callback of the constructor: isConnected = false, emit("close")
onClose(c) == [c EXCEPT !.isConnected = FALSE, !.closeEvents = @ + 1]

\* _sendRequest up to its await: rpc.sendRequest gets the token only when one is
\* given; on a closed transport rpc.sendRequest throws and the catch rethrows
_sendRequest(c, r, method, callerToken, cancellationToken) ==
  [c EXCEPT !.reqs[r] = [st |-> IF c.rpcOpen THEN "pending" ELSE "rejected",
                         method |-> method, token |-> callerToken,
                         passed |-> cancellationToken # "none",
                         notice |-> FALSE, firedPending |-> FALSE]]

completion(c, r, cancellationToken) ==
  _sendRequest(c, r, "textDocument/completion", cancellationToken, cancellationToken)

\* documentSymbol(params, _cancellationToken): the token is not handed on
documentSymbol(c, r, cancellationToken) ==
  _sendRequest(c, r, "textDocument/documentSymbol", cancellationToken, "none")

shutdown(c, r) == _sendRequest(c, r, "shutdown", "none", "none")

\* _sendRequest after its await: the result is returned, an error is rethrown
sendRequestSettled(c, r, outcome) ==
  [c EXCEPT !.reqs[r].st = IF outcome = "result" THEN "resolved"
                           ELSE IF outcome = "RequestCancelled" THEN "cancelled"
                           ELSE "rejected"]

\* ------------------------------------------------------------------ actions
Listening == liveSubs > 0
Thrown == {"none", "exit", "dispose"}

Init ==
  /\ projectDirs \in DirLists
  /\ activeServers = <<>>
  /\ startingServerPromises = [p \in Paths |-> 0]
  /\ restartCounterPerProject = [p \in Paths |-> 0]
  /\ timers = {}
  /\ stoppingServers = <<>>
  /\ editorToServer = [e \in Editors |-> 0]
  /\ normalizedProjectPaths = MapNormalize(projectDirs)
  /\ isStarted = FALSE
  /\ liveSubs = 0
  /\ destroyHooks = NoHooks
  /\ detachedHooks = NoHooks
  /\ observed = NoHooks
  /\ waiting = NoCalls
  /\ handleLater = NoCalls
  /\ opLater = {}
  /\ inst = [i \in InstIds |-> NoInst]
  /\ stops = [k \in StopSlots |-> NoStop]
  /\ ops = [k \in OpSlots |-> NoOp]
  /\ editors = [e \in Editors |-> NoEditor]
  /\ callsSinceAbsent = [p \in Paths |-> 0]
  /\ last = [ev |-> "call", arg |-> 0, res |-> 0, called |-> {}, resolved |-> {},
             rejected |-> {}, done |-> "none", failed |-> "none", atCall |-> {},
             inFlight |-> {}, to |-> NoHooks, cleared |-> {}]
  /\ connection = [isConnected |-> TRUE, closeEvents |-> 0, rpcOpen |-> TRUE,
                   reqs |-> [r \in ReqIds |-> NoReq]]
  /\ returned = [live |-> FALSE, items |-> <<>>, op |-> "none"]

\* a text editor is added to the workspace (editors are numbered as they appear)
OpenEditor(e, filePath, elig) ==
  /\ editors[e].st = "new"
  /\ \A d \in Editors : d < e => editors[d].st # "new"
  /\ LET m == [Cur EXCEPT !.eds[e] = [st |-> "open", path |-> filePath, elig |-> elig]]
     IN Commit(ObserveEach(m, liveSubs, e), "call", 0, 0)

\* the grammar of an editor changes, and with it what _startForEditor answers
GrammarChange(e) ==
  /\ editors[e].st = "open"
  /\ LET m == [Cur EXCEPT !.eds[e].elig = ~@]
     IN Commit(GrammarEach(m, observed[e], e), "call", 0, 0)

\* an editor is destroyed: its grammar listeners are disposed and the
\* onDidDestroy callbacks of _handleTextEditor run, those of a replaced
\* _disposable too
DestroyEditor(e) ==
  /\ editors[e].st = "open"
  /\ LET m == [Cur EXCEPT !.eds[e] = [st |-> "destroyed", path |-> NullPath, elig |-> FALSE],
                          !.obs[e] = 0, !.hooks[e] = 0, !.oldHooks[e] = 0]
     IN Commit(DestroyEach(m, destroyHooks[e] + detachedHooks[e], e), "call", 0, 0)

\* the project's directories change: onDidChangePaths
ChangeProjectPaths(dirs) ==
  /\ dirs # projectDirs
  /\ Commit(onDidChangePaths([Cur EXCEPT !.dirs = dirs], liveSubs, dirs),
            "projectPathsChanged", 0, 0)

\* the host calls projectPathsChanged itself, with any list of paths
ProjectPathsChangedCall(projectPaths) ==
  /\ projectPaths \in CallPaths
  /\ Commit(projectPathsChanged(Cur, IF FreeOp(Cur) = {} THEN 0 ELSE Least(FreeOp(Cur)),
                                projectPaths),
            "projectPathsChangedCall", projectPaths, 0)

\* the host calls updateNormalizedProjectPaths itself
UpdateNormalizedProjectPathsCall ==
  /\ TRUE
  /\ Commit(updateNormalizedProjectPaths(Cur, projectDirs), "call", 0, 0)

\* the host calls exitServer itself, on an instance wherever it is registered
ExitServerCall(i, thrown) ==
  /\ inst[i].st = "live"
  /\ inst[i].kills < MaxKills
  /\ thrown # "none" => inst[i].conn
  /\ LET r == exitServer(Cur, i, thrown)
     IN Commit(r.m, "exitServer", i, [threw |-> r.threw, calls |-> r.calls])

GetServerCall(e, shouldStart) ==
  /\ editors[e].st = "open"
  /\ LET r == getServer(Cur, e, shouldStart)
     IN Commit(r.m, "call", 0, 0)

StartServerCall(p) ==
  /\ p \in Paths
  /\ Commit(startServer(Cur, p), "call", 0, 0)

StopServerCall(i) ==
  /\ inst[i].st = "live"
  /\ Commit(stopServer(Cur, i, 0), "stopServer", i, 0)

StopUnusedServersCall ==
  /\ TRUE
  /\ Commit(stopUnusedServers(Cur), "stopUnusedServers", 0, 0)

StopAllServersCall ==
  /\ FreeOp(Cur) # {}
  /\ LET o == Least(FreeOp(Cur))
     IN Commit(opAwait(stopAllServers(Cur, o), o, "stopAllServers", Range(activeServers)),
               "stopAllServers", 0, 0)

RestartAllServersCall ==
  /\ FreeOp(Cur) # {}
  /\ Commit(restartAllServers(Cur, Least(FreeOp(Cur))), "restartAllServers", 0, 0)

StartListeningCall ==
  /\ liveSubs < MaxSubs
  /\ Commit(startListening(Cur), "call", 0, 0)

StopListeningCall ==
  /\ TRUE
  /\ Commit(stopListening(Cur), "call", 0, 0)

TerminateCall(thrown) ==
  /\ stoppingServers # <<>>
  /\ thrown # "none" => \E k \in 1..Len(stoppingServers) : inst[stoppingServers[k]].conn
  /\ Commit(terminate(Cur, thrown), "terminate", 0, 0)

\* a batch of file-system changes arrives: onDidChangeFiles
ProjectFilesChangedCall(fileEvents, accepts) ==
  /\ fileEvents \in Batches
  /\ Commit(Cur, "projectFilesChanged", [events |-> fileEvents, accepts |-> accepts],
            projectFilesChanged(Cur, fileEvents, accepts))

HasServerReachedRestartLimitCall(i) ==
  /\ inst[i].st = "live"
  /\ restartCounterPerProject[inst[i].path] < MaxRestarts
  /\ LET r == hasServerReachedRestartLimit(Cur, i)
     IN Commit(r.m, "hasServerReachedRestartLimit", i, r.res)

\* the decay timer of hasServerReachedRestartLimit fires
TimerFires(p) ==
  /\ p \in timers
  /\ Commit([Cur EXCEPT !.rc[p] = 0, !.tm = @ \ {p}], "timer", p, 0)

\* the transport closes: rpc.onClose
ConnectionClose(i) ==
  /\ inst[i].st = "live"
  /\ inst[i].conn
  /\ Commit([Cur EXCEPT !.inst[i].conn = FALSE], "call", 0, 0)

\* the promise of the start function is fulfilled
StartFulfils(id) ==
  /\ inst[id].start = "pending"
  /\ Commit([Cur EXCEPT !.inst[id].start = "fulfilled"], "call", 0, 0)

\* the promise of the start function is rejected
StartRejects(id) ==
  /\ inst[id].start = "pending"
  /\ Commit([Cur EXCEPT !.inst[id].start = "rejected"], "call", 0, 0)

\* startServer resumes after the await of the settled promise
StartServerResumes(id) ==
  /\ inst[id].start \in {"fulfilled", "rejected"}
  /\ Commit(startServerResumed(Cur, id),
            IF inst[id].start = "fulfilled" THEN "startFulfilled" ELSE "startRejected",
            id, 0)

\* a suspended _handleTextEditor resumes with the instance getServer resolved to
HandleTextEditorResumes(e, id) ==
  /\ handleLater[e][id] > 0
  /\ Commit(mapEditor([Cur EXCEPT !.later[e][id] = @ - 1], e, id), "call", 0, 0)

\* the shutdown request of a suspended stopServer settles
ShutdownSettles(k, ok) ==
  /\ stops[k].res = "pending"
  /\ Commit([Cur EXCEPT !.stops[k].res = IF ok THEN "fulfilled" ELSE "rejected"],
            "call", 0, 0)

\* a suspended stopServer resumes after the await of the settled shutdown
StopServerResumes(k, thrown) ==
  /\ stops[k].res \in {"fulfilled", "rejected"}
  /\ thrown # "none" => stops[k].res = "fulfilled" /\ inst[stops[k].inst].conn
  /\ Commit(stopServerResumed(Cur, k, thrown), "stopResumed", stops[k].inst, 0)

\* a stopServer call whose function has ended resumes and settles
StopServerSettles(k) ==
  /\ stops[k].res \in {"returned", "threw"}
  /\ Commit(stopServerSettled(Cur, k), "call", 0, 0)

\* a caller resumes after the await of its resolved Promise.all
OpResumes(op) ==
  /\ Copies(opLater, op) > 0
  /\ Commit(opResumed(Cur, op), "call", 0, 0)

\* a request is sent over the connection, with or without a cancellation token
SendRequest(r, method, token) ==
  /\ connection.reqs[r] = NoReq
  /\ \A q \in ReqIds : q < r => connection.reqs[q] # NoReq
  /\ method = "shutdown" => token = "none"
  /\ connection' =
       IF method = "textDocument/completion" THEN completion(connection, r, token)
       ELSE IF method = "textDocument/documentSymbol"
       THEN documentSymbol(connection, r, token)
       ELSE shutdown(connection, r)
  /\ UNCHANGED <<managerVars, returned>>

\* the caller's cancellation token fires; the rpc layer sends the cancel notice
\* for a pending request it was given the token of
TokenFires(r) ==
  /\ connection.reqs[r].token = "armed"
  /\ LET q == connection.reqs[r]
         pending == q.st = "pending"
     IN connection' = [connection EXCEPT
          !.reqs[r] = [q EXCEPT !.token = "fired",
                                !.firedPending = pending,
                                !.notice = pending /\ q.passed /\ connection.rpcOpen]]
  /\ UNCHANGED <<managerVars, returned>>

\* the peer's response to a pending request arrives; it answers a request with
\* the error code RequestCancelled only after a cancel notice
PeerResponds(r, outcome) ==
  /\ connection.rpcOpen
  /\ connection.reqs[r].st = "pending"
  /\ outcome = "RequestCancelled" => connection.reqs[r].notice
  /\ connection' = sendRequestSettled(connection, r, outcome)
  /\ UNCHANGED <<managerVars, returned>>

\* the transport closes: rpc.onClose fires its listeners, once
RpcClose ==
  /\ connection.rpcOpen
  /\ connection' = onClose([connection EXCEPT !.rpcOpen = FALSE])
  /\ UNCHANGED <<managerVars, returned>>

GetActiveServersCall ==
  /\ returned' = getActiveServers(Cur)
  /\ UNCHANGED <<managerVars, connection>>

\* the host changes the array it got from getActiveServers; an array that is the
\* registry's own changes the registry with it
MutateReturned(op, x) ==
  /\ returned.op # "none"
  /\ op = "push" => Len(returned.items) < MaxReturned
  /\ op = "pop" => returned.items # <<>>
  /\ LET items == ArrayOp(returned.items, op, x)
     IN /\ returned' = [returned EXCEPT !.items = items, !.op = op]
        /\ activeServers' = IF returned.live THEN items ELSE activeServers
  /\ UNCHANGED <<startingServerPromises, restartCounterPerProject, timers,
                 stoppingServers, editorToServer, normalizedProjectPaths, isStarted,
                 liveSubs, destroyHooks, detachedHooks, observed, waiting, handleLater,
                 inst, stops, ops, opLater, editors, projectDirs, callsSinceAbsent,
                 last, connection>>

InitNested == Init /\ projectDirs = <<DirAB, DirA>>

\* the workspace's editors while the manager listens: sessions get their
\* servers, lose them when they are destroyed, the host asks for the server of
\* an editor, and the awaits settle and resume
NextSessions ==
  \/ \E e \in Editors, f \in EditorPaths, g \in BOOLEAN : OpenEditor(e, f, g)
  \/ \E e \in Editors : DestroyEditor(e)
  \/ \E e \in Editors : GetServerCall(e, TRUE)
  \/ StartListeningCall
  \/ StopListeningCall
  \/ \E e \in Editors, id \in InstIds : HandleTextEditorResumes(e, id)
  \/ \E id \in InstIds : StartFulfils(id)
  \/ \E id \in InstIds : StartRejects(id)
  \/ \E id \in InstIds : StartServerResumes(id)
  \/ \E k \in StopSlots, ok \in BOOLEAN : ShutdownSettles(k, ok)
  \/ \E k \in StopSlots, t \in Thrown : StopServerResumes(k, t)
  \/ \E k \in StopSlots : StopServerSettles(k)
  \/ StopUnusedServersCall

\* the package restarts the servers of eligible editors while it listens
Next ==
  \/ \E e \in Editors, f \in {FileA, FileAB} : OpenEditor(e, f, TRUE)
  \/ StartListeningCall
  \/ \E e \in Editors, id \in InstIds : HandleTextEditorResumes(e, id)
  \/ \E id \in InstIds : StartFulfils(id)
  \/ \E id \in InstIds : StartServerResumes(id)
  \/ \E i \in InstIds : ConnectionClose(i)
  \/ \E k \in StopSlots : ShutdownSettles(k, TRUE)
  \/ \E k \in StopSlots : StopServerResumes(k, "none")
  \/ \E k \in StopSlots : StopServerSettles(k)
  \/ RestartAllServersCall
  \/ \E op \in OpRecords : OpResumes(op)

\* the manager as a host drives it through startServer, stopServer and terminate
NextHost ==
  \/ \E p \in Paths : StartServerCall(p)
  \/ \E i \in InstIds : StopServerCall(i)
  \/ \E t \in Thrown : TerminateCall(t)
  \/ \E i \in InstIds, t \in Thrown : ExitServerCall(i, t)
  \/ \E id \in InstIds : StartFulfils(id)
  \/ \E id \in InstIds : StartRejects(id)
  \/ \E id \in InstIds : StartServerResumes(id)
  \/ \E k \in StopSlots, ok \in BOOLEAN : ShutdownSettles(k, ok)
  \/ \E k \in StopSlots, t \in Thrown : StopServerResumes(k, t)
  \/ \E k \in StopSlots : StopServerSettles(k)
  \/ \E i \in InstIds : ConnectionClose(i)

\* the restart counters: the host consults the limit for the servers it started,
\* and stops them all
NextRestart ==
  \/ \E p \in Paths : StartServerCall(p)
  \/ \E id \in InstIds : StartFulfils(id)
  \/ \E id \in InstIds : StartServerResumes(id)
  \/ \E i \in InstIds : HasServerReachedRestartLimitCall(i)
  \/ \E p \in Paths : TimerFires(p)
  \/ StopAllServersCall
  \/ \E op \in OpRecords : OpResumes(op)
  \/ \E k \in StopSlots : ShutdownSettles(k, TRUE)
  \/ \E k \in StopSlots : StopServerResumes(k, "none")
  \/ \E k \in StopSlots : StopServerSettles(k)

\* the routing of editors to the project's directories, in every order of them,
\* as the package starts to listen, also a second time, editors are opened and
\* change their grammar, and the starts settle; a stop that a grammar change
\* begins stays at its await of the shutdown reply
NextRouting ==
  \/ \E e \in Editors, f \in FilePaths, g \in BOOLEAN : OpenEditor(e, f, g)
  \/ \E e \in Editors : GrammarChange(e)
  \/ StartListeningCall
  \/ \E e \in Editors, id \in InstIds : HandleTextEditorResumes(e, id)
  \/ \E e \in Editors, b \in BOOLEAN : GetServerCall(e, b)
  \/ \E id \in InstIds : StartFulfils(id)
  \/ \E id \in InstIds : StartServerResumes(id)

\* the project's directories change, and the host calls projectPathsChanged and
\* updateNormalizedProjectPaths itself, while servers are started
NextPaths ==
  \/ \E p \in Paths : StartServerCall(p)
  \/ \E dirs \in DirLists : ChangeProjectPaths(dirs)
  \/ \E paths \in CallPaths : ProjectPathsChangedCall(paths)
  \/ UpdateNormalizedProjectPathsCall
  \/ \E op \in OpRecords : OpResumes(op)
  \/ StartListeningCall
  \/ \E id \in InstIds : StartFulfils(id)
  \/ \E id \in InstIds : StartServerResumes(id)
  \/ \E k \in StopSlots : ShutdownSettles(k, TRUE)
  \/ \E k \in StopSlots : StopServerResumes(k, "none")
  \/ \E k \in StopSlots : StopServerSettles(k)

\* file-system changes while servers are started
NextFiles ==
  \/ \E p \in Paths : StartServerCall(p)
  \/ \E id \in InstIds : StartFulfils(id)
  \/ \E id \in InstIds : StartServerResumes(id)
  \/ \E b \in Batches, f \in WatchFilters : ProjectFilesChangedCall(b, f)

\* one connection: requests, cancellation, responses and the close of the transport
NextConnection ==
  \/ \E r \in ReqIds, method \in Methods, t \in Tokens : SendRequest(r, method, t)
  \/ \E r \in ReqIds : TokenFires(r)
  \/ \E r \in ReqIds, o \in Outcomes : PeerResponds(r, o)
  \/ RpcClose

\* the host holds arrays returned by getActiveServers while servers start and stop
NextSnapshot ==
  \/ \E p \in Paths : StartServerCall(p)
  \/ \E id \in InstIds : StartFulfils(id)
  \/ \E id \in InstIds : StartServerResumes(id)
  \/ \E i \in InstIds : StopServerCall(i)
  \/ \E k \in StopSlots : ShutdownSettles(k, TRUE)
  \/ \E k \in StopSlots : StopServerResumes(k, "none")
  \/ \E k \in StopSlots : StopServerSettles(k)
  \/ GetActiveServersCall
  \/ \E op \in ArrayOps, x \in InstIds : MutateReturned(op, x)

SpecSessions == InitNested /\ [][NextSessions]_vars
Spec == InitNested /\ [][Next]_vars
SpecHost == InitNested /\ [][NextHost]_vars
SpecRestart == InitNested /\ [][NextRestart]_vars
SpecRouting == Init /\ [][NextRouting]_vars
SpecPaths == InitNested /\ [][NextPaths]_vars
SpecFiles == InitNested /\ [][NextFiles]_vars
SpecConnection == InitNested /\ [][NextConnection]_vars
SpecSnapshot == InitNested /\ [][NextSnapshot]_vars


\* ------------------------------------------------------------------ claims
Starting(p) == {i \in InstIds : inst[i].st = "starting" /\ inst[i].path = p}
ActiveOn(p) == {i \in Range(activeServers) : inst[i].path = p}
OpenEditors == {e \in Editors : editors[e].st = "open"}
RouteOf(e) == determineProjectPath(normalizedProjectPaths, editors[e].path)
Mapped(i) == {e \in Editors : editorToServer[e] = i}
Unused == {i \in Range(activeServers) : Mapped(i) = {}}

\* C1: getServer calls with shouldStart for eligible sessions under one project
\* path with no active instance invoke the start function once: at most one
\* invocation per path is in flight, every suspended _handleTextEditor of the path
\* awaits it, and a further getServer call joins it without starting another.
C1_OneStartPerPath ==
  \A p \in Paths :
    /\ Cardinality(Starting(p)) <= 1
    /\ \A i \in Starting(p) :
         /\ ActiveOn(p) = {}
         /\ startingServerPromises[p] = i
         /\ \A e \in OpenEditors : \A b \in BOOLEAN :
              RouteOf(e) = p =>
                LET r == getServer(Cur, e, b)
                IN r.kind = "await" /\ r.id = i /\ r.m = Cur
    /\ \A e \in Editors : \A i \in InstIds :
         (waiting[e][i] > 0 /\ inst[i].path = p) => i \in Starting(p)

\* the two calls observeTextEditors makes for an editor, of two editors, await
\* the one start of their path
C1_Witness ==
  \E p \in Paths : \E i \in Starting(p) :
    \A e \in Editors : waiting[e][i] = 2

\* C2: the active registry holds at most one instance per project path and at
\* most one start-function invocation per project path is in flight.
C2_OnePerPath ==
  \A p \in Paths :
    /\ Len(SelectSeq(activeServers, LAMBDA s : inst[s].path = p)) <= 1
    /\ Cardinality(Starting(p)) <= 1

\* C3: a stopServer call that has settled, resolved or rejected, has invoked
\* process.kill() on its instance, whatever the outcome of shutdown.
C3_SettledStopKilled ==
  \A i \in last.resolved \cup last.rejected : inst[i].kills >= 1

\* C4: once stopAllServers resolves, every instance that was in the active
\* registry at the call has left the registry and has had its process killed.
C4_StopAllStopsAll ==
  last.done = "stopAllServers" =>
    \A i \in last.atCall : i \notin Range(activeServers) /\ inst[i].kills >= 1

\* C5: when restartAllServers resolves, the active registry is empty, the
\* session mapping is empty and session observation is active.
C5_RestartAllEmpties ==
  last.done = "restartAllServers" =>
    /\ activeServers = <<>>
    /\ \A e \in Editors : editorToServer[e] = 0
    /\ liveSubs > 0

\* C6: while restartAllServers is suspended, before it resumes observation,
\* no subscription is live, so no session event is handled.
C6_ObservationSuspended ==
  (\/ \E o \in OpSlots : ops[o].kind = "restartAllServers"
   \/ \E c \in opLater : c[1].kind = "restartAllServers") => liveSubs = 0

\* C7: whenever a stopServer call resolves, its instance is not in the active
\* registry, no session mapping points to it and its process has been killed.
C7_StopResolved ==
  \A i \in last.resolved :
    /\ i \notin Range(activeServers)
    /\ Mapped(i) = {}
    /\ inst[i].kills >= 1

\* C8: counting the calls of hasServerReachedRestartLimit for a path since the
\* path last had no counter record, calls 1 to 5 return false and every later
\* call returns true; the call after the timer removed the record counts as 1.
C8_RestartLimit ==
  /\ last.ev = "hasServerReachedRestartLimit" =>
       (last.res <=> callsSinceAbsent[inst[last.arg].path] > RestartLimit)
  /\ \A p \in Paths : restartCounterPerProject[p] = 0 \/ p \in timers

C8_Witness ==
  /\ last.ev = "hasServerReachedRestartLimit"
  /\ last.res = TRUE
  /\ callsSinceAbsent[inst[last.arg].path] = RestartLimit + 1

\* C9: stopUnusedServers stops exactly the active instances without a mapped
\* session: it calls stopServer on each of them and on no other, and what stays
\* in the active registry are the instances with a mapped session, in order.
C9_StopUnusedExact ==
  LET m == stopUnusedServers(Cur)
  IN m.ovf \/
       /\ m.called = Unused
       /\ m.act = SelectSeq(activeServers, LAMBDA s : Mapped(s) # {})

\* a turn of stopUnusedServers has stopped an instance and spared a mapped one
C9_Witness ==
  /\ last.ev = "stopUnusedServers"
  /\ last.called # {}
  /\ \E i \in Range(activeServers) : Mapped(i) # {}

\* C10: when the start function rejects for a path, every suspended getServer
\* of that start is released without a mapping, the pending entry of the path is
\* removed, the active registry is unchanged, and a later getServer with
\* shouldStart for an eligible session of that path starts anew.
C10_StartFailure ==
  [][last'.ev = "startRejected" =>
       LET id == last'.arg
           p == inst[id].path
       IN /\ inst[id].st = "starting"
          /\ inst'[id].st = "failed"
          /\ startingServerPromises'[p] = 0
          /\ activeServers' = activeServers
          /\ editorToServer' = editorToServer
          /\ last'.to = [e \in Editors |-> waiting[e][id]]
          /\ waiting' = [e \in Editors |-> [waiting[e] EXCEPT ![id] = 0]]
          /\ handleLater' = handleLater
          /\ \A e \in Editors :
               (editors[e].st = "open" /\ editors[e].elig /\ RouteOf(e) = p
                  /\ ActiveOn(p) = {}) =>
                 LET r == getServer(Cur, e, TRUE)'
                 IN r.m.ovf \/ (r.kind = "await" /\ r.id # id
                                  /\ r.m.inst[r.id].st = "starting"
                                  /\ inst'[r.id].st = "none")]_vars

\* the start that was rejected had both calls of two editors awaiting it
C10_Witness ==
  /\ last.ev = "startRejected"
  /\ \A e \in Editors : last.to[e] = 2
  /\ \E i \in InstIds : inst[i].st = "none"

\* the registered roots that are a prefix of filePath, and the longest of them
MatchingRoots(filePath) ==
  {d \in Range(normalizedProjectPaths) : filePath # NullPath /\ StartsWith(filePath, d)}

LongestRoot(filePath) ==
  IF MatchingRoots(filePath) = {} THEN NullPath
  ELSE CHOOSE d \in MatchingRoots(filePath) :
         \A d2 \in MatchingRoots(filePath) : Len(d2) <= Len(d)

\* C11: a session whose file path lies under several registered roots is routed
\* to the longest matching root, in every registration order: determineProjectPath
\* answers it, and the instance getServer returns or starts is rooted there.
C11_LongestRoot ==
  \A e \in OpenEditors :
    /\ RouteOf(e) = LongestRoot(editors[e].path)
    /\ \A b \in BOOLEAN :
         LET r == getServer(Cur, e, b)
         IN r.m.ovf \/ r.kind = "null"
              \/ r.m.inst[r.id].path = LongestRoot(editors[e].path)

\* C12: getServer returns none and starts nothing for a session without a file
\* path or under no registered root; with no active instance and no pending
\* start for the session's path it invokes the start function only if shouldStart
\* is true and the session is eligible, and otherwise returns none and leaves
\* the manager's state as it was.
C12_GetServerNone ==
  \A e \in OpenEditors : \A b \in BOOLEAN :
    LET r == getServer(Cur, e, b)
        p == RouteOf(e)
    IN IF MatchingRoots(editors[e].path) = {}
       THEN r.kind = "null" /\ r.m = Cur
       ELSE (ActiveOn(p) = {} /\ startingServerPromises[p] = 0) =>
              IF b /\ editors[e].elig
              THEN r.m.ovf \/ (/\ r.kind = "await"
                               /\ inst[r.id].st = "none"
                               /\ r.m.inst[r.id].st = "starting"
                               /\ r.m.inst[r.id].path = p)
              ELSE r.kind = "null" /\ r.m = Cur

\* an editor outside every root and a not eligible editor under a root without
\* instance and pending start are open, and a start is still possible
C12_Witness ==
  /\ \E i \in InstIds : inst[i].st = "none"
  /\ \E e1, e2 \in OpenEditors :
       /\ editors[e1].path = FileOut
       /\ normalizedProjectPaths # <<>>
       /\ ~editors[e2].elig
       /\ MatchingRoots(editors[e2].path) # {}
       /\ ActiveOn(RouteOf(e2)) = {}
       /\ startingServerPromises[RouteOf(e2)] = 0

\* C13: a start in flight when stopAllServers or restartAllServers runs is not
\* interrupted, and the instance it produces is stopped right after the start
\* resolves: when the stopAllServers or restartAllServers resolves, an instance
\* whose start was pending at the call and has resolved since is not in the
\* active registry.
C13_InFlightStartStopped ==
  last.done \in {"stopAllServers", "restartAllServers"} =>
    \A i \in last.inFlight : inst[i].st = "live" => i \notin Range(activeServers)

\* the instances whose stopServer call awaits the shutdown reply
AwaitingShutdown ==
  {stops[k].inst : k \in {j \in StopSlots : stops[j].res \in {"pending", "fulfilled", "rejected"}}}

\* C14: stopServer removes the instance from the active registry before it
\* suspends: while a stop awaits the shutdown reply its instance is not in the
\* registry, no getServer call returns it, and a getServer with shouldStart for an
\* eligible session of that path, with no other instance or start for the path,
\* starts a fresh instance.
C14_StoppingNotReturned ==
  \A i \in AwaitingShutdown :
    /\ i \notin Range(activeServers)
    /\ \A e \in OpenEditors : \A b \in BOOLEAN :
         LET r == getServer(Cur, e, b)
         IN /\ r.kind # "null" => r.id # i
            /\ (/\ b /\ editors[e].elig
                /\ RouteOf(e) = inst[i].path
                /\ ActiveOn(inst[i].path) = {}
                /\ startingServerPromises[inst[i].path] = 0)
                 => r.m.ovf \/ (/\ r.kind = "await"
                                /\ inst[r.id].st = "none"
                                /\ r.m.inst[r.id].st = "starting"
                                /\ r.m.inst[r.id].path = inst[i].path)

\* while a stop awaits the shutdown reply, another instance has been started
\* for its path and an open eligible editor routes there
C14_Witness ==
  \E i \in AwaitingShutdown : \E j \in InstIds \ {i} : \E e \in OpenEditors :
    /\ inst[j].path = inst[i].path
    /\ inst[j].st \in {"starting", "live"}
    /\ editors[e].elig
    /\ RouteOf(e) = inst[i].path

\* C15: every instance is in exactly one of the active registry, the stopping
\* set, or neither: none is in both, and none appears more than once in either.
C15_OnePlace ==
  /\ Range(activeServers) \cap Range(stoppingServers) = {}
  /\ Cardinality(Range(activeServers)) = Len(activeServers)
  /\ Cardinality(Range(stoppingServers)) = Len(stoppingServers)

\* C16: terminate() attempts the kill of every instance in the stopping set: also
\* when the exit or dispose of one of them throws, every instance of the stopping
\* set has had process.kill() invoked.
C16_TerminateKillsAll ==
  last.ev = "terminate" => \A i \in Range(stoppingServers) : inst[i].kills >= 1

\* C17: exitServer always invokes process.kill(), and invokes it last: with the
\* connection open it sends exit and then disposes the connection first, and kills
\* also when exit or dispose throws; with the connection closed it only kills.
C17_ExitServerKills ==
  \A i \in InstIds : \A t \in Thrown :
    inst[i].st = "live" =>
      LET r == exitServer(Cur, i, t)
      IN /\ r.calls[Len(r.calls)] = "kill"
         /\ r.m.inst[i].kills = Min(inst[i].kills + 1, MaxKills)
         /\ r.m = [Cur EXCEPT !.inst[i].kills = r.m.inst[i].kills]
         /\ IF inst[i].conn
            THEN /\ r.calls[1] = "exit"
                 /\ t # "exit" => r.calls = <<"exit", "dispose", "kill">>
                 /\ r.threw <=> t # "none"
            ELSE r.calls = <<"kill">> /\ ~r.threw

\* a stopServer call was rejected by an exception of exitServer on an open
\* connection and the process has been killed all the same, and another
\* instance is stopped with its connection closed
C17_Witness ==
  /\ \E i \in last.rejected : inst[i].conn /\ inst[i].kills = 1
  /\ \E j \in InstIds : inst[j].st = "live" /\ ~inst[j].conn /\ inst[j].kills >= 1

\* the instances of the active registry whose path is not among dirs, normalized
NotUnder(dirs) ==
  {i \in Range(activeServers) :
     \A k \in 1..Len(dirs) : inst[i].path # normalizePath(dirs[k])}

\* C18: projectPathsChanged(newPaths) calls stopServer on exactly the active
\* instances whose path is not in the normalized newPaths and on no other, and
\* when it resolves each of them has left the registry and has been killed and
\* the Project Root Set has been recomputed from the project's directories.
C18_PathsChanged ==
  [][/\ (projectDirs' # projectDirs /\ liveSubs > 0) =>
          /\ last'.called = NotUnder(projectDirs')
          /\ activeServers' = SelectSeq(activeServers, LAMBDA s : s \notin NotUnder(projectDirs'))
     /\ last'.ev = "projectPathsChangedCall" =>
          /\ last'.called = NotUnder(last'.arg)
          /\ activeServers' = SelectSeq(activeServers, LAMBDA s : s \notin NotUnder(last'.arg))
     /\ last'.done = "projectPathsChanged" =>
          /\ \A i \in last'.atCall : i \notin Range(activeServers') /\ inst'[i].kills >= 1
          /\ normalizedProjectPaths' = MapNormalize(projectDirs')]_vars

\* projectPathsChanged has resolved after awaiting the shutdown of an instance
\* it stopped, and an instance under a remaining path is still active
C18_Witness ==
  /\ last.done = "projectPathsChanged"
  /\ \E i \in last.atCall : inst[i].conn
  /\ activeServers # <<>>

\* the records an instance rooted at root is due for a batch under a filter:
\* the events whose path qualifies, and the renames whose old path qualifies
Qualifies(f, root, accepts) == StartsWith(f, root) /\ f \in accepts
ByPath(events, root, accepts) ==
  {k \in 1..Len(events) : Qualifies(events[k].path, root, accepts)}
ByOldPath(events, root, accepts) ==
  {k \in 1..Len(events) :
     events[k].action = "renamed" /\ Qualifies(events[k].oldPath, root, accepts)}
SentTo(i) == {n \in 1..Len(last.res) : last.res[n].to = i}

\* C19: for a batch of file-change events, projectFilesChanged sends each active
\* instance one notification holding one record per event whose path is under
\* its root and passes the filter plus one per rename whose old path is and
\* does, in the order of the events; a rename inside the root gives the records
\* delete-old and create-new; an instance due no record, and any instance that
\* is not active, gets no notification.
C19_FilesRouted ==
  last.ev = "projectFilesChanged" =>
    \A i \in InstIds :
      LET events == last.arg.events
          accepts == last.arg.accepts
          root == inst[i].path
          due == Cardinality(ByPath(events, root, accepts))
                   + Cardinality(ByOldPath(events, root, accepts))
      IN IF i \in Range(activeServers) /\ due > 0
         THEN /\ Cardinality(SentTo(i)) = 1
              /\ \A n \in SentTo(i) :
                   LET changes == last.res[n].changes
                   IN /\ Len(changes) = due
                      /\ \A c \in 1..Len(changes) :
                           \E k \in 1..Len(events) :
                             changes[c] \in Range(atomFileEventToLSFileEvents(events[k]))
                      /\ \A k \in ByPath(events, root, accepts) \cap
                                   ByOldPath(events, root, accepts) :
                           \E c \in 1..(Len(changes) - 1) :
                             /\ changes[c] = [uri |-> events[k].oldPath, type |-> "Deleted"]
                             /\ changes[c + 1] = [uri |-> events[k].path, type |-> "Created"]
         ELSE SentTo(i) = {}

\* with two active instances, one rooted inside the other, a batch has held a
\* rename whose two paths pass the filter and lie under the outer root, one of
\* them outside the inner root, and an event on a path the filter rejects: the
\* outer instance got delete-old and create-new, the inner one a single record
C19_Witness ==
  /\ last.ev = "projectFilesChanged"
  /\ Len(activeServers) = 2
  /\ Len(last.res) = 2
  /\ \E k, j \in 1..Len(last.arg.events) :
       /\ last.arg.events[k].action = "renamed"
       /\ \E i \in Range(activeServers) :
            k \in ByPath(last.arg.events, inst[i].path, last.arg.accepts)
                   \cap ByOldPath(last.arg.events, inst[i].path, last.arg.accepts)
       /\ last.arg.events[j].path \notin last.arg.accepts
  /\ \E n \in 1..Len(last.res) : Len(last.res[n].changes) = 2
  /\ \E n \in 1..Len(last.res) : Len(last.res[n].changes) = 1

\* a turn in which stopAllServers is called: it suspends in a free slot, or with
\* nothing to stop its await is resolved at once
StopAllTurn ==
  \/ \E o \in OpSlots : ops[o] = NoOp /\ ops'[o].kind = "stopAllServers"
  \/ /\ ops' = ops
     /\ \E c \in opLater' : c[1].kind = "stopAllServers" /\ Copies(opLater, c[1]) < c[2]

\* C20: when stopAllServers has run its synchronous prefix the restart-counter
\* table is empty and no decay timer is pending; and at any time the pending
\* timers are those of the records in the table, so that no timer of a deleted
\* record is left to fire and remove a record created later.
C20_StopAllClearsCounters ==
  [][/\ StopAllTurn =>
          /\ \A p \in Paths : restartCounterPerProject'[p] = 0
          /\ timers' = {}
     /\ timers' = {p \in Paths : restartCounterPerProject'[p] # 0}]_vars

\* stopAllServers has cancelled the timer of a record and awaits a shutdown
C20_Witness ==
  /\ last.ev = "stopAllServers"
  /\ last.cleared # {}
  /\ \E o \in OpSlots : ops[o].kind = "stopAllServers"

\* C21: a session mapping exists only for live sessions: no destroyed session
\* has a mapping, in every interleaving, also when the session is destroyed
\* while the start issued for it is in flight; and no mapping points to an
\* instance whose stopServer call has resolved.
C21_MappingOnlyLive ==
  /\ \A e \in Editors : editors[e].st = "destroyed" => editorToServer[e] = 0
  /\ \A i \in last.resolved : Mapped(i) = {}

\* C22: isConnected is true from construction, is false once the transport has
\* closed and never becomes true again, and the change to false comes with
\* exactly one "close" event: no close event is emitted at any other time.
C22_ConnectedUntilClose ==
  [][/\ connection'.isConnected <=> connection'.rpcOpen
     /\ ~connection.isConnected => ~connection'.isConnected
     /\ connection'.closeEvents =
          connection.closeEvents
            + (IF connection.isConnected /\ ~connection'.isConnected THEN 1 ELSE 0)]_vars

\* the transport has closed while a request was pending
C22_Witness ==
  /\ ~connection.isConnected
  /\ connection.closeEvents = 1
  /\ \E r \in ReqIds : connection.reqs[r].st = "pending"

\* r's token fires in this step while r is pending
FiresPending(r) ==
  /\ connection.reqs[r].st = "pending"
  /\ connection.reqs[r].token = "armed"
  /\ connection'.reqs[r].token = "fired"

\* C23: a request whose token fires before its response arrives is rejected
\* with a cancellation error: when it settles, it settles as cancelled whatever
\* the peer does; and the firing changes no other request.
C23_CancelRejects ==
  [][/\ \A r \in ReqIds :
          (connection'.reqs[r].firedPending /\ connection'.reqs[r].st # "pending")
            => connection'.reqs[r].st = "cancelled"
     /\ \A r \in ReqIds :
          FiresPending(r) =>
            \A q \in ReqIds \ {r} : connection'.reqs[q] = connection.reqs[q]]_vars

\* C26: a token given to documentSymbol cancels the request as a token given to
\* completion does: when it fires while the request is pending, the cancel
\* notice for the request is sent to the peer.
C26_DocumentSymbolToken ==
  \A r \in ReqIds :
    (/\ connection.reqs[r].method \in {"textDocument/completion",
                                        "textDocument/documentSymbol"}
     /\ connection.reqs[r].firedPending
     /\ connection.rpcOpen)
      => connection.reqs[r].notice

\* C24: getActiveServers returns a copy of the active registry: the array it
\* returns holds the registry's instances in registry order, and a step in which
\* the host adds to, removes from or reorders that array changes nothing of the
\* manager, so later getServer and getActiveServers calls return what they would
\* have returned without it.
C24_DefensiveCopy ==
  [][/\ (returned'.op = "get" /\ returned' # returned) =>
          returned'.items = activeServers /\ activeServers' = activeServers
     /\ (returned'.op \in ArrayOps /\ returned' # returned) =>
          /\ managerVars' = managerVars
          /\ getActiveServers(Cur)' = getActiveServers(Cur)
          /\ \A e \in Editors, b \in BOOLEAN : getServer(Cur, e, b)' = getServer(Cur, e, b)]_vars

\* the host has changed a returned array of a non-empty registry
C24_Witness ==
  /\ returned.op \in ArrayOps
  /\ activeServers # <<>>
  /\ returned.items # activeServers

\* C25: while a stopServer call awaits the shutdown reply its instance is in the
\* stopping set; a terminate() in that window invokes process.kill() on every
\* such instance; and an instance leaves the stopping set only in the turn in
\* which its stopServer resumes and runs exitServer on it.
C25_StoppingWindow ==
  [][/\ \A i \in AwaitingShutdown' : i \in Range(stoppingServers')
     /\ last'.ev = "terminate" =>
          \A i \in AwaitingShutdown :
            inst'[i].kills > inst[i].kills \/ inst[i].kills = MaxKills
     /\ \A i \in Range(stoppingServers) \ Range(stoppingServers') :
          /\ last'.ev = "stopResumed"
          /\ last'.arg = i
          /\ inst'[i].kills > inst[i].kills \/ inst[i].kills = MaxKills]_vars

\* C27: stopServer(X) removes only X from the active registry: every other
\* instance active before the call is still active after the turn of the call,
\* also when X is not in the registry at the call.
C27_StopRemovesOnlyX ==
  [][last'.ev = "stopServer" =>
       \A j \in Range(activeServers) \ {last'.arg} : j \in Range(activeServers')]_vars

\* C28: the listening flag tracks the subscriptions: the manager is started
\* exactly while a set of subscriptions is live, and at most one set is live, so
\* that a second startListening adds none and stopListening disposes the one.
C28_FlagTracksSubscriptions ==
  /\ liveSubs <= 1
  /\ isStarted <=> liveSubs = 1

\* C29: process.kill() is invoked at most once on every instance.
C29_KilledOnce == \A i \in InstIds : inst[i].kills <= 1

====
